---- MODULE Spec2Model ----
(***************************************************************************)
(* Strategic credit scoring: the episodic environment creditScoring_v3     *)
(* (src/env/creditScoring_v3.py) and the actor-critic agent Principal_v5   *)
(* (src/model/principal_v5.py).                                            *)
(*                                                                         *)
(* Numbers.  The environment is modelled on integer-valued features,       *)
(* weights and epsilon; on these the closed-form response is exact.  The   *)
(* Adam ascent of strategic_response_GA is float32 arithmetic that has no  *)
(* exact integer image: each of its steps is modelled as an arbitrary      *)
(* displacement of magnitude at most GAStepMax per coordinate, followed by *)
(* the clamp of the code, so every value the code can return is among the  *)
(* values of the model.  The diagnostic plot of strategic_response_GA and  *)
(* its call counter are a side channel and are not modelled.               *)
(***************************************************************************)
EXTENDS Integers, Sequences, FiniteSets, TLC

VARIABLES
    \* module-level configuration of creditScoring_v3.py
    response_method, strategic_response, epsilon,
    \* fields of creditScoring_v3
    mode, maximum_episode_length, samplePointer, train_x, train_y,
    policy_weight, trigger_once,
    \* the last call made on the environment and what it returned
    call, ret,
    \* record of the episode since the last reset() that returned: the state
    \* of the episode (Idle until a reset() returns, then Running until a
    \* step() returns terminated), the step() calls made, the rewards returned and whether
    \* all were +1, the calls that returned terminated, and whether every
    \* action was the label at the cursor
    phase, calls, n_rewards, all_plus, term_at, matched,
    \* the training features as load_data() returned them
    loaded_x,
    \* the weights the last step() that was given weights was given, as they
    \* were at that call (None before the first such step)
    supplied,
    \* constructor parameters and fields of Principal_v5
    buffer_size, discount_factor, lr_a, lr_c,
    previous_policy_weight, q_weights, buffer, batch_update_count,
    training_error, training_expected_acc_list, training_acc_detail,
    training_rewards, training_policy_weights,
    training_single_policy_weight_update, training_batch_acc,
    testing_accuracy, testing_acc_detail,
    \* the last call made on the agent, and the update() calls made so far
    agent_call, n_observe,
    \* what the last batch update computed for each transition, in the order
    \* it processed them
    batch_log,
    \* the last call a caller made on a strategic response method itself, with
    \* its arguments and what it returned
    resp

envstate == <<response_method, strategic_response, epsilon, mode,
              maximum_episode_length, samplePointer, train_x, train_y,
              policy_weight, trigger_once, call, ret, phase, calls, n_rewards,
              all_plus, term_at, matched, loaded_x, supplied>>

envvars == <<envstate, resp>>

agentvars == <<buffer_size, discount_factor, lr_a, lr_c,
               previous_policy_weight, q_weights, buffer, batch_update_count,
               training_error, training_expected_acc_list, training_acc_detail,
               training_rewards, training_policy_weights,
               training_single_policy_weight_update, training_batch_acc,
               testing_accuracy, testing_acc_detail, agent_call, n_observe,
               batch_log>>

vars == <<envvars, agentvars>>

-----------------------------------------------------------------------------
(* Bounds and program constants *)

dimension == 2          \* features per sample; a bias entry follows them
MaxLen == 3             \* longest split
MaxEpisode == MaxLen    \* largest maximum_episode_length
MaxSteps == MaxLen + 1  \* step() calls made per episode
GAStepMax == 1          \* largest displacement of one ascent step
num_steps == 20         \* default step count of strategic_response_GA
ga_epsilon == 1         \* default epsilon of strategic_response_GA
NaN == 99               \* the float nan; no feature of the model has this value
clamp_lo == 0
clamp_hi == 1

None == << >>           \* Python None, where an array may stand
NoneIdx == {0}          \* Python None, where an index list may stand

\* strat_features = np.array([1, 6, 8]) - 1, scaled to `dimension` features:
\* the first feature is manipulable, the second is not (indices from 1).
strat_features == {1}

ResponseMethods == {"GA", "Close", "Linear"}

\* values of epsilon (the code's comment: 0-10)
EpsilonValues == {0, 1}

\* labelled samples (features, then the bias entry) the splits are drawn from
Samples == << [x |-> <<-1, 2, 1>>, y |-> 0],
              [x |-> <<1, 0, 1>>, y |-> 1] >>

\* classifier weights the caller constructs the environment with, and those
\* it supplies to step()
InitialWeights == { <<1, -1, 0>> }
SuppliedWeights == { <<-2, 1, 1>> }

\* values the caller's weight array holds after the caller has updated it in
\* place
MutatedWeights == { <<-1, 1, 1>> }

\* action values passed to step(): the two of Discrete(2) and one outside
Actions == {0, 1, 2}

\* the held-out split; load_test_data() builds it from two csv files
test_x == << <<1, 0, 1>> >>
test_y == << 1 >>

-----------------------------------------------------------------------------
(* Strategic response *)

Clamp(v, lo, hi) == IF v < lo THEN lo ELSE IF v > hi THEN hi ELSE v

\* x'_i = x_i - eps * theta_i on the manipulable indices of a copy.
\* Result: out = the returned array, arg = the argument array after the call,
\* aliased = the returned array is the argument array itself.
strategic_response_Close_nocopy(real_feature, pw, eps, strat) ==
    IF ~strategic_response
    THEN [out |-> real_feature, arg |-> real_feature, aliased |-> TRUE]
    ELSE LET sf == IF strat = NoneIdx THEN 1..(Len(pw) - 1) ELSE strat
             modified == [i \in 1..Len(real_feature) |->
                            IF i \in sf THEN real_feature[i] + (-eps * pw[i])
                                        ELSE real_feature[i]]
         IN [out |-> modified, arg |-> modified, aliased |-> TRUE]

strategic_response_Close(real_feature, pw, eps, strat) ==
    IF ~strategic_response
    THEN [out |-> real_feature, arg |-> real_feature, aliased |-> TRUE]
    ELSE LET sf == IF strat = NoneIdx THEN 1..(Len(pw) - 1) ELSE strat
             modified == [i \in 1..Len(real_feature) |->
                            IF i \in sf THEN real_feature[i] + (-eps * pw[i])
                                        ELSE real_feature[i]]
         IN [out |-> modified, arg |-> real_feature, aliased |-> FALSE]

AscentStep_noclamp(S) == { z + d : z \in S, d \in -GAStepMax..GAStepMax }

\* one ascent step on one optimised coordinate: optimizer.step(), then
\* z_s.clamp_(0.0, 1.0)
AscentStep(S) ==
    { Clamp(z + d, clamp_lo, clamp_hi) : z \in S, d \in -GAStepMax..GAStepMax }

\* the values one optimised coordinate can hold k ascent steps after it held
\* a value of S (a set the step maps to itself stays what it is)
RECURSIVE AscentValues(_, _)
AscentValues(S, k) ==
    IF k = 0 THEN S
    ELSE LET T == AscentStep(S)
         IN IF T = S THEN S ELSE AscentValues(T, k - 1)

\* the vectors that agree with real_feature outside sf and hold an ascent
\* value at every index of sf; built index by index from position i on
\* the values an optimised coordinate that starts at x can hold after the
\* loop.  With eps = 0 the cost of the first iteration is 0 / 0 = nan, its
\* gradient is nan, and the coordinate is nan from the first step on (clamp_
\* keeps nan).
AscentResult(x, steps, eps) ==
    IF eps = 0 /\ steps >= 1 THEN {NaN} ELSE AscentValues({x}, steps)

RECURSIVE Modified(_, _, _, _, _, _)
Modified(real_feature, sf, steps, eps, i, acc) ==
    IF i > Len(real_feature) THEN acc
    ELSE LET vals == IF i \in sf
                     THEN AscentResult(real_feature[i], steps, eps)
                     ELSE {real_feature[i]}
         IN Modified(real_feature, sf, steps, eps, i + 1,
                     {Append(a, v) : a \in acc, v \in vals})

\* the set of results of strategic_response_GA; strat = None optimises every
\* non-bias feature
strategic_response_GA(real_feature, pw, steps, eps, strat) ==
    IF ~strategic_response
    THEN {[out |-> real_feature, arg |-> real_feature, aliased |-> TRUE]}
    ELSE LET n_features == Len(pw) - 1
             sf == IF strat = NoneIdx THEN 1..n_features ELSE strat
         IN { [out |-> m, arg |-> real_feature, aliased |-> FALSE] :
              m \in Modified(real_feature, sf, steps, eps, 1, {<< >>}) }

-----------------------------------------------------------------------------
(* Environment *)

ActiveX(X) == IF mode = "train" THEN X ELSE test_x
ActiveY == IF mode = "train" THEN train_y ELSE test_y

\* Split rows are held as sequences indexed from 1; the cursor is the code's
\* 0-based samplePointer, so sample k of the code is row k + 1.
\* write a row back into the active split (the row is a view of the split)
PutRow(X, idx, row) ==
    IF mode = "train" THEN [X EXCEPT ![idx + 1] = row] ELSE X

\* _get_obs at cursor ptr with weights pw over split contents X: the set of
\* outcomes [err, obs, aliased, X, trig]
_get_obs(ptr, pw, X) ==
    LET sample == ActiveX(X)[ptr + 1] IN
    IF response_method = "GA"
    THEN { [err |-> FALSE, obs |-> r.out, aliased |-> r.aliased,
            X |-> PutRow(X, ptr, r.arg), trig |-> trigger_once] :
           r \in strategic_response_GA(sample, pw, num_steps, ga_epsilon,
                                      NoneIdx) }
    ELSE IF response_method = "Close"
    THEN LET r == strategic_response_Close(sample, pw, epsilon, strat_features)
         IN {[err |-> FALSE, obs |-> r.out, aliased |-> r.aliased,
              X |-> PutRow(X, ptr, r.arg), trig |-> TRUE]}
    ELSE {[err |-> TRUE, obs |-> None, aliased |-> FALSE, X |-> X,
           trig |-> trigger_once]}

HasNext_early(next_idx, max_len) == next_idx + 1 < max_len

\* the test of _get_info: the look-ahead index is inside the split
HasNext(next_idx, max_len) == next_idx < max_len

\* _get_info at cursor ptr: the set of outcomes [info, X]
_get_info(ptr, pw, X) ==
    LET target == ActiveY[ptr + 1]
        max_len == Len(ActiveX(X))
        next_idx == ptr + 1
    IN IF HasNext(next_idx, max_len)
       THEN LET next_sample == ActiveX(X)[next_idx + 1] IN
            IF response_method = "GA"
            THEN { [info |-> [true_label |-> target, next_obs |-> r.out],
                    X |-> PutRow(X, next_idx, r.arg)] :
                   r \in strategic_response_GA(next_sample, pw, num_steps,
                                              ga_epsilon, NoneIdx) }
            ELSE IF response_method = "Close"
            THEN LET r == strategic_response_Close(next_sample, pw, epsilon,
                                                   strat_features)
                 IN {[info |-> [true_label |-> target, next_obs |-> r.out],
                      X |-> PutRow(X, next_idx, r.arg)]}
            ELSE {[info |-> [true_label |-> target, next_obs |-> None], X |-> X]}
       ELSE {[info |-> [true_label |-> target, next_obs |-> None], X |-> X]}

NoInfo == [true_label |-> 0, next_obs |-> None]

Raised(op) == [kind |-> "error", op |-> op, obs |-> None, aliased |-> FALSE,
               reward |-> 0, terminated |-> FALSE, truncated |-> FALSE,
               info |-> NoInfo]

\* the module's configuration and __init__ of the environment, for the
\* response methods, splits, episode bounds and weights given
EnvInit(methods, data, episode_bounds, weights) ==
    /\ response_method \in methods
    /\ strategic_response \in BOOLEAN
    \* only the closed form reads the module's epsilon
    /\ epsilon \in IF response_method = "Close" THEN EpsilonValues ELSE {1}
    /\ mode = "train"
    /\ maximum_episode_length \in episode_bounds
    /\ samplePointer = 0
    /\ \E d \in data :
         /\ train_x = [k \in 1..Len(d) |-> d[k].x]
         /\ train_y = [k \in 1..Len(d) |-> d[k].y]
    /\ loaded_x = train_x
    /\ supplied = None
    /\ policy_weight \in weights
    /\ trigger_once = FALSE
    /\ call = [op |-> "init", action |-> 0, weights |-> None, pre_pointer |-> 0,
               pre_phase |-> "Idle"]
    /\ ret = [kind |-> "none", op |-> "init", obs |-> None, aliased |-> FALSE,
              reward |-> 0, terminated |-> FALSE, truncated |-> FALSE,
              info |-> NoInfo]
    /\ phase = "Idle"
    /\ calls = 0
    /\ n_rewards = 0
    /\ all_plus = TRUE
    /\ term_at = {}
    /\ matched = TRUE
    /\ resp = [op |-> "init", x |-> None, pw |-> None, steps |-> 0, eps |-> 0,
               sf |-> {}, out |-> None, aliased |-> FALSE]

\* the splits: every length up to MaxLen, the samples taken in turn from
\* either one on
Splits ==
    { [k \in 1..L |-> Samples[((k + s) % Len(Samples)) + 1]] :
      L \in 1..MaxLen, s \in 1..Len(Samples) }

-----------------------------------------------------------------------------
(* reset() and step() *)

Returned(op, o) ==
    [kind |-> "ok", op |-> op, obs |-> o.obs, aliased |-> o.aliased,
     reward |-> o.reward, terminated |-> o.terminated,
     truncated |-> o.truncated, info |-> o.info]

\* reset(): cursor to 0, then _get_obs() and _get_info()
Reset ==
    /\ samplePointer' = 0
    /\ call' = [op |-> "reset", action |-> 0, weights |-> None,
                pre_pointer |-> samplePointer, pre_phase |-> phase]
    /\ \E o \in _get_obs(0, policy_weight, train_x) :
         IF o.err
         THEN /\ ret' = Raised("reset")
              /\ train_x' = o.X
              /\ trigger_once' = o.trig
              /\ UNCHANGED <<phase, calls, n_rewards, all_plus, term_at, matched>>
         ELSE \E inf \in _get_info(0, policy_weight, o.X) :
              /\ ret' = Returned("reset",
                           [obs |-> o.obs, aliased |-> o.aliased, reward |-> 0,
                            terminated |-> FALSE, truncated |-> FALSE,
                            info |-> inf.info])
              /\ train_x' = inf.X
              /\ trigger_once' = o.trig
              /\ phase' = "Running"
              /\ calls' = 0
              /\ n_rewards' = 0
              /\ all_plus' = TRUE
              /\ term_at' = {}
              /\ matched' = TRUE
    /\ UNCHANGED <<response_method, strategic_response, epsilon, mode,
                   maximum_episode_length, train_y, policy_weight, loaded_x,
                   supplied, resp>>
    /\ UNCHANGED agentvars

\* the reward chain of step(): three tested cases and a final else
Reward(action, label) ==
    IF action = 0 /\ label = 0 THEN 1
    ELSE IF action = 0 /\ label = 1 THEN 0 - 1
    ELSE IF action = 1 /\ label = 0 THEN 0 - 1
    ELSE 1

Terminated_early(next_idx, max_len) == next_idx >= max_len - 1

Terminated(next_idx, max_len) == next_idx >= max_len

Truncated_ge(next_idx, max_episode) == next_idx >= max_episode

Truncated(next_idx, max_episode) == next_idx > max_episode

next_pointer_wrap(ptr, terminated, truncated) ==
    IF ~(terminated \/ truncated) THEN ptr + 1 ELSE 0

next_pointer_always(ptr, terminated, truncated) == ptr + 1

\* the cursor step() leaves: advanced only when neither flag is set
next_pointer(ptr, terminated, truncated) ==
    IF ~(terminated \/ truncated) THEN ptr + 1 ELSE ptr

\* the branch of step() taken when neither flag is set: the cursor has been
\* advanced to next_idx
step_advance(next_idx, pw, X) ==
    UNION { IF o.err
            THEN {[err |-> TRUE, obs |-> None, aliased |-> FALSE,
                   info |-> NoInfo, X |-> o.X, trig |-> o.trig]}
            ELSE {[err |-> FALSE, obs |-> o.obs, aliased |-> o.aliased,
                   info |-> inf.info, X |-> inf.X, trig |-> o.trig] :
                  inf \in _get_info(next_idx, pw, o.X)} :
            o \in _get_obs(next_idx, pw, X) }

step_terminal_obs(ptr, pw, X) ==
    UNION { {[err |-> FALSE, obs |-> ActiveX(X)[ptr + 1], aliased |-> TRUE,
              info |-> [inf.info EXCEPT !.true_label = 1 - @], X |-> inf.X,
              trig |-> trigger_once]} :
            inf \in _get_info(ptr, pw, X) }

\* the branch of step() taken when a flag is set: the cursor stays at ptr
step_terminal(ptr, pw, X) ==
    { [err |-> FALSE, obs |-> None, aliased |-> FALSE, info |-> inf.info,
       X |-> inf.X, trig |-> trigger_once] :
      inf \in _get_info(ptr, pw, X) }

\* step(action, previous_policy_weight); the second argument is supplied_weight
Step(action, supplied_weight) ==
    /\ calls < MaxSteps
    /\ LET label == ActiveY[samplePointer + 1]
           reward == Reward(action, label)
           pw == IF supplied_weight # None
                 THEN supplied_weight ELSE policy_weight
           max_len == Len(ActiveX(train_x))
           next_idx == samplePointer + 1
           terminated == Terminated(next_idx, max_len)
           truncated == Truncated(next_idx, maximum_episode_length)
           outcomes == IF ~(terminated \/ truncated)
                       THEN step_advance(next_idx, pw, train_x)
                       ELSE step_terminal(samplePointer, pw, train_x)
       IN /\ call' = [op |-> "step", action |-> action,
                      weights |-> supplied_weight,
                      pre_pointer |-> samplePointer, pre_phase |-> phase]
          /\ policy_weight' = pw
          /\ supplied' = IF supplied_weight # None
                         THEN supplied_weight ELSE supplied
          /\ samplePointer' = next_pointer(samplePointer, terminated, truncated)
          /\ calls' = calls + 1
          /\ \E o \in outcomes :
               /\ train_x' = o.X
               /\ trigger_once' = o.trig
               /\ IF o.err
                  THEN /\ ret' = Raised("step")
                       /\ UNCHANGED <<phase, n_rewards, all_plus, term_at, matched>>
                  ELSE /\ ret' = Returned("step",
                                   [obs |-> o.obs, aliased |-> o.aliased,
                                    reward |-> reward,
                                    terminated |-> terminated,
                                    truncated |-> truncated, info |-> o.info])
                       /\ phase' = IF terminated /\ phase = "Running"
                                   THEN "Terminated" ELSE phase
                       /\ n_rewards' = n_rewards + 1
                       /\ all_plus' = (all_plus /\ reward = 1)
                       /\ term_at' = IF terminated
                                     THEN term_at \cup {calls + 1} ELSE term_at
                       /\ matched' = (matched /\ action = label)
    /\ UNCHANGED <<response_method, strategic_response, epsilon, mode,
                   maximum_episode_length, train_y, loaded_x, resp>>
    /\ UNCHANGED agentvars

\* step() keeps the array it is given (self.policy_weight =
\* previous_policy_weight, no copy), so a caller that updates that array in
\* place, as Principal_v5.batch_update does with +=, updates the weights of
\* the environment: the caller writes w into the array it last supplied.
MutateSupplied(w) ==
    /\ supplied # None
    /\ policy_weight # w
    /\ policy_weight' = w
    /\ call' = [op |-> "mutate", action |-> 0, weights |-> None,
                pre_pointer |-> samplePointer, pre_phase |-> phase]
    /\ ret' = [kind |-> "none", op |-> "mutate", obs |-> None,
               aliased |-> FALSE, reward |-> 0, terminated |-> FALSE,
               truncated |-> FALSE, info |-> NoInfo]
    /\ UNCHANGED <<response_method, strategic_response, epsilon, mode,
                   maximum_episode_length, samplePointer, train_x, train_y,
                   trigger_once, phase, calls, n_rewards, all_plus, term_at,
                   matched, loaded_x, supplied, resp>>
    /\ UNCHANGED agentvars

-----------------------------------------------------------------------------
(* The strategic response methods called by a caller with arguments of its  *)
(* own                                                                       *)

\* arguments of the calls: raw feature vectors, classifier weights, epsilon,
\* num_steps and strat_features (None, the module's set, the empty list, the
\* second feature)
FeatureVectors == { Samples[k].x : k \in 1..Len(Samples) }
ResponseWeights == InitialWeights \cup SuppliedWeights
ResponseEpsilons == EpsilonValues \cup {2}
StepCounts == {0, 1, num_steps}
StratChoices == {NoneIdx, strat_features, {}, {2}}

\* the indices a strategy manipulates when it is given strat
StratSet(strat, pw) == IF strat = NoneIdx THEN 1..(Len(pw) - 1) ELSE strat

Responded(op, x, pw, steps, eps, strat, r) ==
    [op |-> op, x |-> x, pw |-> pw, steps |-> steps, eps |-> eps,
     sf |-> StratSet(strat, pw), out |-> r.out, aliased |-> r.aliased]

\* env.strategic_response_GA(x, pw, num_steps=steps, epsilon=eps,
\*                           strat_features=strat)
RespondGA(x, pw, steps, eps, strat) ==
    /\ \E r \in strategic_response_GA(x, pw, steps, eps, strat) :
         resp' = Responded("GA", x, pw, steps, eps, strat, r)
    /\ UNCHANGED envstate
    /\ UNCHANGED agentvars

\* env.strategic_response_Close(x, pw, epsilon=eps, strat_features=strat)
RespondClose(x, pw, eps, strat) ==
    /\ resp' = Responded("Close", x, pw, 0, eps, strat,
                         strategic_response_Close(x, pw, eps, strat))
    /\ UNCHANGED envstate
    /\ UNCHANGED agentvars

-----------------------------------------------------------------------------
(* Principal_v5.  Observations, actions, rewards and labels are integers;   *)
(* weights, Q values, TD errors, probabilities, gradients and learning      *)
(* rates are fixed-point numbers in units of 1/WScale, and a product or a   *)
(* quotient is rounded to the nearest unit.                                 *)

WScale == 100
clipVal_td == 10
clipVal_grad_log_pi == 10
clipVal_policyWeight == 10
MaxBuffer == 2          \* largest buffer_size
MaxObserve == 4         \* update() calls made
MaxTests == 1           \* test_result_record() calls made

\* n / d rounded to the nearest integer, d > 0
Round(n, d) == (2 * n + d) \div (2 * d)

Max(a, b) == IF a >= b THEN a ELSE b

RECURSIVE DotFrom(_, _, _)
DotFrom(w, v, i) ==
    IF i > Len(v) THEN 0 ELSE w[i] * v[i] + DotFrom(w, v, i + 1)

\* np.dot of a weight vector and an integer vector
Dot(w, v) == DotFrom(w, v, 1)

\* Vectors are built entry by entry, so that each is a tuple of numbers.
RECURSIVE ClipFrom(_, _, _, _)
ClipFrom(v, c, i, acc) ==
    IF i > Len(v) THEN acc
    ELSE ClipFrom(v, c, i + 1, Append(acc, Clamp(v[i], 0 - c, c)))

\* np.clip(v, -c, +c)
ClipVec(v, c) == ClipFrom(v, c, 1, << >>)

RECURSIVE ScaleFrom(_, _, _, _, _)
ScaleFrom(v, num, den, i, acc) ==
    IF i > Len(v) THEN acc
    ELSE ScaleFrom(v, num, den, i + 1, Append(acc, Round(num * v[i], den)))

\* (num / den) * v
ScaleVec(v, num, den) == ScaleFrom(v, num, den, 1, << >>)

RECURSIVE AddFrom(_, _, _, _)
AddFrom(a, b, i, acc) ==
    IF i > Len(a) THEN acc ELSE AddFrom(a, b, i + 1, Append(acc, a[i] + b[i]))

\* a + b
AddVec(a, b) == AddFrom(a, b, 1, << >>)

\* 1 / (1 + exp(-logits)) at logits 0, 1, ... 6, in units of 1/WScale
SigmoidTable == <<50, 73, 88, 95, 98, 99, 100>>

SigmoidPos(l) ==
    LET k == l \div WScale
        f == l % WScale
    IN IF k + 1 >= Len(SigmoidTable) THEN SigmoidTable[Len(SigmoidTable)]
       ELSE SigmoidTable[k + 1]
            + ((SigmoidTable[k + 2] - SigmoidTable[k + 1]) * f) \div WScale

\* the sigmoid of batch_update, interpolated between the table's entries
Sigmoid(l) == IF l >= 0 THEN SigmoidPos(l) ELSE WScale - SigmoidPos(0 - l)

\* transitions the caller passes to update(): observation, action, reward,
\* terminated, info.next_obs and info.true_label, and the probability prob
Transitions ==
    { [obs |-> <<-1, 2, 1>>, action |-> 0, reward |-> 1, terminated |-> FALSE,
       next_obs |-> <<1, 0, 1>>, true_label |-> 0, prob |-> 50],
      [obs |-> <<1, 0, 1>>, action |-> 0, reward |-> 0 - 1, terminated |-> FALSE,
       next_obs |-> None, true_label |-> 1, prob |-> 73],
      [obs |-> <<1, 0, 1>>, action |-> 1, reward |-> 1, terminated |-> TRUE,
       next_obs |-> None, true_label |-> 1, prob |-> 73],
      [obs |-> <<-30, 2, 1>>, action |-> 1, reward |-> 0 - 1, terminated |-> TRUE,
       next_obs |-> <<1, 0, 1>>, true_label |-> 0, prob |-> 50] }

\* the tuple update() appends to the buffer
SampleOf(t) ==
    [obs |-> t.obs, action |-> t.action, reward |-> t.reward,
     terminated |-> t.terminated, next_obs |-> t.next_obs,
     true_label |-> t.true_label]

\* classifier weights np.random.normal(0, 0.1) can draw at construction
AgentInitialWeights == { <<0, 0, 0>>, <<10, -20, 5>> }

\* learning rates and discount factor the agent is constructed with
LearningRates == {100}
DiscountFactors == {99}

\* __init__ of the agent, for the buffer sizes and weights given
AgentInit(sizes, weights) ==
    /\ buffer_size \in sizes
    /\ discount_factor \in DiscountFactors
    /\ lr_a \in LearningRates
    /\ lr_c \in LearningRates
    /\ previous_policy_weight \in weights
    /\ q_weights = [i \in 1..(dimension + 2) |-> 1]
    /\ buffer = << >>
    /\ batch_update_count = 0
    /\ training_error = << >>
    /\ training_expected_acc_list = << >>
    /\ training_acc_detail = << >>
    /\ training_rewards = << >>
    /\ training_policy_weights = << >>
    /\ training_single_policy_weight_update = << >>
    /\ training_batch_acc = << >>
    /\ testing_accuracy = << >>
    /\ testing_acc_detail = << >>
    /\ agent_call = [op |-> "init", pre_len |-> 0, batch |-> FALSE]
    /\ n_observe = 0
    /\ batch_log = << >>

\* Q(obs, a) = q_weights . concat(obs, a)
QValue(q, obs, a) == Dot(q, Append(obs, a))

max_q_next_ignores_terminated(t, q) ==
    IF t.next_obs # None
    THEN Max(QValue(q, t.next_obs, 0), QValue(q, t.next_obs, 1))
    ELSE 0

\* max over the two actions of Q(next_obs, .), or 0.0
max_q_next(t, q) ==
    IF ~t.terminated /\ t.next_obs # None
    THEN Max(QValue(q, t.next_obs, 0), QValue(q, t.next_obs, 1))
    ELSE 0

td_target(t, q) ==
    t.reward * WScale + Round(discount_factor * max_q_next(t, q), WScale)

\* td_error before np.clip
td_raw(t, q) == td_target(t, q) - QValue(q, t.obs, t.action)

\* td_error after np.clip
td_error(t, q) ==
    Clamp(td_raw(t, q), 0 - clipVal_td * WScale, clipVal_td * WScale)

\* self.q_weights += self.lr_c * td_error * q_input; td is the TD error the
\* loop holds at that line
critic_update(t, q, td) ==
    AddVec(q, ScaleVec(Append(t.obs, t.action), lr_c * td, WScale))

\* prob recomputed from the classifier weights th
prob_of(t, th) == Sigmoid(Dot(th, t.obs))

\* grad_log_pi before np.clip
grad_raw(t, th) == ScaleVec(t.obs, t.action * WScale - prob_of(t, th), 1)

grad_log_pi_unclipped(t, th) == grad_raw(t, th)

\* grad_log_pi after np.clip
grad_log_pi(t, th) == ClipVec(grad_raw(t, th), clipVal_grad_log_pi * WScale)

\* weight_update before np.clip; td is the TD error the loop holds
weight_raw(t, th, td) ==
    ScaleVec(grad_log_pi(t, th), lr_a * td, WScale * WScale * buffer_size)

\* weight_update after np.clip
weight_update(t, th, td) ==
    ClipVec(weight_raw(t, th, td), clipVal_policyWeight * WScale)

actor_weights_at_start(st) == st.th0

\* the classifier weights the loop reads for a transition: those of the
\* agent as they stand, earlier updates of the pass included
actor_weights(st) == st.th

\* the body of the loop of batch_update for transition t, from the running
\* state st = [q, th, th0, ups, accs, log]; th0 holds the classifier weights
\* the pass started from
process_transition(t, st) ==
    LET td == td_error(t, st.q)
        q_after == critic_update(t, st.q, td)
        w == actor_weights(st)
        prob == prob_of(t, w)
        wu == weight_update(t, w, td)
    IN [q |-> q_after,
        th |-> AddVec(st.th, wu),
        th0 |-> st.th0,
        ups |-> Append(st.ups, wu),
        accs |-> Append(st.accs,
                        IF t.true_label = 1 THEN prob ELSE WScale - prob),
        log |-> Append(st.log,
                       [t |-> t, q |-> st.q, th |-> st.th,
                        target |-> td_target(t, st.q),
                        td_raw |-> td_raw(t, st.q), td |-> td,
                        q_after |-> q_after, prob |-> prob,
                        grad_raw |-> grad_raw(t, w),
                        grad |-> grad_log_pi(t, w),
                        wu_raw |-> weight_raw(t, w, td), wu |-> wu])]

RECURSIVE process_batch(_, _, _)
process_batch(batch, k, st) ==
    IF k > Len(batch) THEN st
    ELSE process_batch(batch, k + 1, process_transition(batch[k], st))

\* the orders np.random.shuffle can leave n items in
Shuffles(n) == { p \in [1..n -> 1..n] : \A i, j \in 1..n : p[i] = p[j] => i = j }

RECURSIVE SumFrom(_, _)
SumFrom(v, i) == IF i > Len(v) THEN 0 ELSE v[i] + SumFrom(v, i + 1)

Mean(v) == Round(SumFrom(v, 1), Len(v))

\* the agent's learning state
AgentState ==
    [buffer |-> buffer, q |-> q_weights, th |-> previous_policy_weight,
     count |-> batch_update_count,
     ups |-> training_single_policy_weight_update,
     batch_acc |-> training_batch_acc, log |-> batch_log]

BelowCapacity_empty(buf, n) == Len(buf) = 0

\* the test batch_update() returns on
BelowCapacity(buf, n) == Len(buf) < n

\* batch_update() from learning state a: the set of learning states it can
\* leave
batch_update(a) ==
    IF BelowCapacity(a.buffer, buffer_size) THEN {a}
    ELSE { LET batch == [k \in 1..Len(a.buffer) |-> a.buffer[p[k]]]
               st == process_batch(batch, 1,
                                   [q |-> a.q, th |-> a.th, th0 |-> a.th,
                                    ups |-> a.ups, accs |-> << >>,
                                    log |-> << >>])
           IN [buffer |-> << >>, q |-> st.q, th |-> st.th,
               count |-> a.count + 1, ups |-> st.ups,
               batch_acc |-> Append(a.batch_acc, Mean(st.accs)),
               log |-> st.log] :
           p \in Shuffles(Len(a.buffer)) }

SetAgentState(a) ==
    /\ buffer' = a.buffer
    /\ q_weights' = a.q
    /\ previous_policy_weight' = a.th
    /\ batch_update_count' = a.count
    /\ training_single_policy_weight_update' = a.ups
    /\ training_batch_acc' = a.batch_acc
    /\ batch_log' = a.log

\* deque(maxlen = n).append
DequeAppend(buf, x, n) ==
    IF Len(buf) >= n THEN Append(Tail(buf), x) ELSE Append(buf, x)

BufferFull_gt(buf, n) == Len(buf) > n

\* the test update() makes after the append
BufferFull(buf, n) == Len(buf) >= n

\* update(obs, action, reward, terminated, info, prob)
Update(t) ==
    /\ n_observe < MaxObserve
    /\ LET appended == [AgentState EXCEPT
                          !.buffer = DequeAppend(buffer, SampleOf(t), buffer_size)]
           outcomes == IF BufferFull(appended.buffer, buffer_size)
                       THEN batch_update(appended) ELSE {appended}
           correct_prob == IF t.true_label = 1 THEN t.prob ELSE WScale - t.prob
           err == t.prob - t.true_label * WScale
       IN \E a \in outcomes :
            /\ SetAgentState(a)
            /\ training_expected_acc_list' =
                 Append(training_expected_acc_list, correct_prob)
            /\ training_error' =
                 Append(training_error, IF err < 0 THEN 0 - err ELSE err)
            /\ training_rewards' = Append(training_rewards, t.reward)
            /\ training_policy_weights' = Append(training_policy_weights, a.th)
            /\ training_acc_detail' =
                 Append(training_acc_detail,
                        [predicted_prob |-> t.prob, predicted_label |-> t.action,
                         true_label |-> t.true_label,
                         expected_accuracy |-> correct_prob, reward |-> t.reward])
            /\ agent_call' = [op |-> "update", pre_len |-> Len(buffer),
                              batch |-> a.count # batch_update_count]
    /\ n_observe' = n_observe + 1
    /\ UNCHANGED <<buffer_size, discount_factor, lr_a, lr_c, testing_accuracy,
                   testing_acc_detail>>
    /\ UNCHANGED envvars

\* batch_update() called by the caller itself
BatchUpdate ==
    /\ \E a \in batch_update(AgentState) :
         /\ SetAgentState(a)
         /\ agent_call' = [op |-> "batch_update", pre_len |-> Len(buffer),
                           batch |-> a.count # batch_update_count]
    /\ UNCHANGED <<buffer_size, discount_factor, lr_a, lr_c, training_error,
                   training_expected_acc_list, training_acc_detail,
                   training_rewards, training_policy_weights, testing_accuracy,
                   testing_acc_detail, n_observe>>
    /\ UNCHANGED envvars

test_result_record_learns(action, true_label, prob) ==
    /\ Len(testing_accuracy) < MaxTests
    /\ testing_accuracy' =
         Append(testing_accuracy, IF action = true_label THEN 1 ELSE 0)
    /\ testing_acc_detail' =
         Append(testing_acc_detail,
                [prob |-> prob, action |-> action, true_label |-> true_label])
    /\ agent_call' = [op |-> "test_result_record", pre_len |-> Len(buffer),
                      batch |-> FALSE]
    /\ \E a \in LET appended ==
                      [AgentState EXCEPT
                         !.buffer = DequeAppend(buffer,
                                      [obs |-> <<1, 0, 1>>, action |-> action,
                                       reward |-> 1, terminated |-> FALSE,
                                       next_obs |-> None,
                                       true_label |-> true_label],
                                      buffer_size)]
                IN IF BufferFull(appended.buffer, buffer_size)
                   THEN batch_update(appended) ELSE {appended} :
         SetAgentState(a)
    /\ UNCHANGED <<buffer_size, discount_factor, lr_a, lr_c, training_error,
                   training_expected_acc_list, training_acc_detail,
                   training_rewards, training_policy_weights, n_observe>>
    /\ UNCHANGED envvars

\* test_result_record(action, info, prob), info holding true_label
test_result_record(action, true_label, prob) ==
    /\ Len(testing_accuracy) < MaxTests
    /\ testing_accuracy' =
         Append(testing_accuracy, IF action = true_label THEN 1 ELSE 0)
    /\ testing_acc_detail' =
         Append(testing_acc_detail,
                [prob |-> prob, action |-> action, true_label |-> true_label])
    /\ agent_call' = [op |-> "test_result_record", pre_len |-> Len(buffer),
                      batch |-> FALSE]
    /\ UNCHANGED <<buffer_size, discount_factor, lr_a, lr_c,
                   previous_policy_weight, q_weights, buffer,
                   batch_update_count, training_error,
                   training_expected_acc_list, training_acc_detail,
                   training_rewards, training_policy_weights,
                   training_single_policy_weight_update, training_batch_acc,
                   n_observe, batch_log>>
    /\ UNCHANGED envvars

-----------------------------------------------------------------------------
(* Specifications *)

\* the environment, driven by reset() and step(); the agent is constructed
\* and left alone
Init ==
    /\ EnvInit(ResponseMethods, Splits, 0..MaxEpisode, InitialWeights)
    /\ AgentInit({MaxBuffer}, {<<0, 0, 0>>})

Next ==
    \/ Reset
    \/ \E action \in Actions, w \in SuppliedWeights \cup {None} : Step(action, w)
    \/ \E w \in MutatedWeights : MutateSupplied(w)

Spec == Init /\ [][Next]_vars

\* the agent, driven by update(), batch_update() and test_result_record();
\* the environment is constructed and left alone
InitAgent ==
    /\ EnvInit({"Close"}, {<< [x |-> <<1, 0, 1>>, y |-> 1] >>}, {MaxEpisode},
               InitialWeights)
    /\ strategic_response
    /\ epsilon = 1
    /\ AgentInit(1..MaxBuffer, AgentInitialWeights)

NextAgent ==
    \/ \E t \in Transitions : Update(t)
    \/ BatchUpdate
    \/ \E action \in 0..1 : test_result_record(action, 1, 73)

SpecAgent == InitAgent /\ [][NextAgent]_vars

\* the strategic response methods, called with every combination of the
\* arguments above; environment and agent are constructed and left alone
InitResponse ==
    /\ EnvInit({"Close"}, {<< [x |-> <<1, 0, 1>>, y |-> 1] >>}, {MaxEpisode},
               InitialWeights)
    /\ epsilon = 1
    /\ AgentInit({MaxBuffer}, {<<0, 0, 0>>})

NextResponse ==
    \/ \E x \in FeatureVectors, pw \in ResponseWeights, steps \in StepCounts,
          eps \in ResponseEpsilons, strat \in StratChoices :
          RespondGA(x, pw, steps, eps, strat)
    \/ \E x \in FeatureVectors, pw \in ResponseWeights,
          eps \in ResponseEpsilons, strat \in StratChoices :
          RespondClose(x, pw, eps, strat)

SpecResponse == InitResponse /\ [][NextResponse]_vars

-----------------------------------------------------------------------------
(* Claims about the environment *)

Supported == response_method \in {"GA", "Close"}
StepReturned == ret.kind = "ok" /\ ret.op = "step"
SplitLen == Len(train_x)
LabelAt(k) == train_y[k + 1]
RawAt(k) == loaded_x[k + 1]

\* C1: after reset(), L steps that each pass the true label at the cursor, on
\* a split of length L with maximum_episode_length >= L, return L rewards,
\* all +1, and terminated is true on the L-th step and on no earlier one.
C1_MatchedEpisode ==
    (phase # "Idle" /\ matched /\ maximum_episode_length >= SplitLen
       /\ calls <= SplitLen)
    => /\ n_rewards = calls
       /\ all_plus
       /\ term_at = {SplitLen} \cap 1..calls

C1_Witness ==
    /\ phase = "Terminated" /\ matched
    /\ maximum_episode_length >= SplitLen
    /\ SplitLen >= 2 /\ calls = SplitLen
    /\ \E i, j \in 1..SplitLen : train_y[i] # train_y[j]

\* C2: step() raises when the environment was never reset and when the last
\* step returned terminated with no reset() since.
C2_StepOutOfSequenceFails ==
    (call.op = "step" /\ call.pre_phase \in {"Idle", "Terminated"})
    => ret.kind = "error"

\* C3: the reward of a step is +1 exactly when the action equals the label at
\* the cursor the step started from, and -1 for every other action value.
C3_RewardIffActionIsLabel ==
    StepReturned
    => ret.reward = (IF call.action = LabelAt(call.pre_pointer)
                     THEN 1 ELSE 0 - 1)

\* C5: a step from cursor c sets truncated iff c + 1 > maximum_episode_length
\* and terminated iff c + 1 >= L, each from its own bound.
C5_FlagsFromTheirBounds ==
    StepReturned
    => /\ ret.truncated <=> (call.pre_pointer + 1 > maximum_episode_length)
       /\ ret.terminated <=> (call.pre_pointer + 1 >= SplitLen)

C5_Witness ==
    StepReturned /\ ret.truncated /\ ~ret.terminated /\ call.pre_pointer >= 1

\* C6: a step that sets terminated or truncated returns no observation, and
\* its info holds the label of the sample the step scored, at the cursor the
\* step left in place.
C6_TerminalInfoHasLabel ==
    (StepReturned /\ (ret.terminated \/ ret.truncated))
    => /\ ret.obs = None
       /\ ret.info.true_label = LabelAt(call.pre_pointer)
       /\ samplePointer = call.pre_pointer

C6_Witness ==
    /\ StepReturned /\ ret.terminated /\ call.pre_pointer >= 1
    /\ LabelAt(call.pre_pointer) # LabelAt(0)

\* C7: under a response method that is neither supported strategy, no call
\* returns normally while a strategic response was due: a look-ahead sample
\* in range is never answered by a silent none.
C7_UnknownMethodNeverSilent ==
    (~Supported /\ ret.kind = "ok")
    => ~(samplePointer + 1 < SplitLen /\ ret.info.next_obs = None)

\* C9: under either strategy an observation and a look-ahead differ from the
\* raw sample only at the indices of strat_features.
C9_OnlyStratFeaturesChange ==
    (Supported /\ ret.kind = "ok")
    => /\ ret.obs # None =>
            \A i \in (1..(dimension + 1)) \ strat_features :
                ret.obs[i] = RawAt(samplePointer)[i]
       /\ ret.info.next_obs # None =>
            \A i \in (1..(dimension + 1)) \ strat_features :
                ret.info.next_obs[i] = RawAt(samplePointer + 1)[i]

\* the closed form on a raw sample x with weights theta
CloseForm(x, theta) ==
    [i \in 1..Len(x) |->
       IF i \in strat_features THEN x[i] - epsilon * theta[i] ELSE x[i]]

\* C10: with manipulation enabled the closed-form strategy returns
\* x_i - epsilon * theta_i at every manipulable index and x_i elsewhere
\* (bias included), in an array of its own; the samples of the split and the
\* supplied weights are left as they were.
C10_CloseFormExact ==
    (response_method = "Close" /\ strategic_response /\ ret.kind = "ok")
    => /\ ret.obs # None =>
            /\ ret.obs = CloseForm(RawAt(samplePointer), policy_weight)
            /\ ~ret.aliased
       /\ ret.info.next_obs # None =>
            ret.info.next_obs = CloseForm(RawAt(samplePointer + 1), policy_weight)
       /\ train_x = loaded_x
       /\ call.weights # None => policy_weight = call.weights

C10_Witness ==
    /\ response_method = "Close" /\ strategic_response /\ StepReturned
    /\ epsilon >= 1 /\ call.weights # None
    /\ ret.obs # None /\ ret.obs # RawAt(samplePointer)
    /\ ret.info.next_obs # None
    /\ ret.info.next_obs # RawAt(samplePointer + 1)

\* C11: the cursor lies in [0, L) in every state; it is 0 when reset() has
\* just run, and a step() never leaves it below where the step found it, so
\* it never decreases between two resets.
C11_CursorInRange ==
    /\ samplePointer \in 0..(SplitLen - 1)
    /\ call.op = "reset" => samplePointer = 0
    /\ call.op = "step" => samplePointer >= call.pre_pointer

C11_Witness ==
    /\ call.op = "reset" /\ ret.kind = "ok"
    /\ call.pre_pointer >= 2 /\ call.pre_pointer = SplitLen - 1
    /\ samplePointer = 0

\* C14: a step() given weights computes its reward from the action and the
\* label at the cursor it started from alone, and its observation and
\* look-ahead, and those of every later step until weights are given again,
\* from the weights that were given (under the closed form, where the
\* response is a function of the weights).
C14_SuppliedWeightsGovern ==
    (StepReturned /\ supplied # None)
    => /\ ret.reward = Reward(call.action, LabelAt(call.pre_pointer))
       /\ (response_method = "Close" /\ strategic_response)
            => /\ ret.obs # None
                    => ret.obs = CloseForm(RawAt(samplePointer), supplied)
               /\ ret.info.next_obs # None
                    => ret.info.next_obs
                         = CloseForm(RawAt(samplePointer + 1), supplied)

\* what the configured strategy can return for sample k under the weights in
\* force
ManipulatedAt(k) ==
    IF response_method = "Close"
    THEN { IF strategic_response THEN CloseForm(RawAt(k), policy_weight)
                                 ELSE RawAt(k) }
    ELSE { r.out : r \in strategic_response_GA(RawAt(k), policy_weight,
                                               num_steps, ga_epsilon, NoneIdx) }

\* C15: reset(), and a step() that sets neither flag, return the manipulated
\* sample at the cursor c they leave, the label at c, and as look-ahead the
\* manipulated sample at c + 1 when c + 1 < L, and none exactly when
\* c + 1 >= L.
C15_ObservationAtCursor ==
    (Supported /\ ret.kind = "ok"
       /\ (ret.op = "reset"
             \/ (ret.op = "step" /\ ~ret.terminated /\ ~ret.truncated)))
    => /\ ret.obs \in ManipulatedAt(samplePointer)
       /\ ret.info.true_label = LabelAt(samplePointer)
       /\ samplePointer + 1 < SplitLen
            => ret.info.next_obs \in ManipulatedAt(samplePointer + 1)
       /\ ret.info.next_obs = None <=> samplePointer + 1 >= SplitLen

C15_Witness ==
    /\ StepReturned /\ ~ret.terminated /\ ~ret.truncated
    /\ response_method = "Close" /\ strategic_response /\ epsilon >= 1
    /\ samplePointer + 1 < SplitLen
    /\ ret.obs # RawAt(samplePointer)
    /\ ret.info.next_obs # RawAt(samplePointer + 1)
    /\ LabelAt(samplePointer) # LabelAt(samplePointer + 1)

Min(a, b) == IF a <= b THEN a ELSE b

\* C20: a step() that returns terminated or truncated leaves the cursor where
\* it found it; the cursor is never above min(L - 1, maximum_episode_length);
\* and a step() that follows such a step with no reset() between starts from
\* the same cursor, is rewarded by the label there, and returns the same two
\* flags.
C20_TerminalStepKeepsCursor ==
    [][/\ samplePointer' <= Min(SplitLen - 1, maximum_episode_length)
       /\ (call'.op = "step" /\ ret'.kind = "ok"
             /\ (ret'.terminated \/ ret'.truncated))
            => samplePointer' = samplePointer
       /\ (StepReturned /\ (ret.terminated \/ ret.truncated)
             /\ call'.op = "step" /\ ret'.kind = "ok")
            => /\ call'.pre_pointer = call.pre_pointer
               /\ ret'.reward = Reward(call'.action, LabelAt(call.pre_pointer))
               /\ ret'.terminated = ret.terminated
               /\ ret'.truncated = ret.truncated
               /\ samplePointer' = samplePointer]_vars

C20_Witness ==
    /\ StepReturned /\ ret.terminated /\ ~ret.truncated
    /\ call.pre_phase = "Terminated"
    /\ SplitLen >= 2 /\ calls = SplitLen + 1
    /\ samplePointer = SplitLen - 1

-----------------------------------------------------------------------------
(* Claims about the strategic response methods *)

ResponseReturned == resp.op \in {"GA", "Close"}

\* C12: with manipulation disabled, or with epsilon = 0, either strategy
\* returns a vector equal to its input in every coordinate.
C12_IdentityWhenDisabledOrEpsilonZero ==
    (ResponseReturned /\ (~strategic_response \/ resp.eps = 0))
    => resp.out = resp.x

-----------------------------------------------------------------------------
(* Claims about the agent *)

\* C4: the buffer never holds more than buffer_size transitions; an update()
\* call runs a batch update exactly when its append brings the length to
\* buffer_size, and then returns with the buffer empty; so after n update()
\* calls the length is n mod buffer_size and floor(n / buffer_size) batch
\* updates have run.
C4_BufferDrainsWhenFull ==
    /\ Len(buffer) <= buffer_size
    /\ Len(buffer) = n_observe % buffer_size
    /\ batch_update_count = n_observe \div buffer_size
    /\ agent_call.op = "update" =>
         /\ agent_call.batch <=> (agent_call.pre_len + 1 = buffer_size)
         /\ agent_call.batch => Len(buffer) = 0

C4_Witness ==
    /\ buffer_size = MaxBuffer /\ buffer_size >= 2
    /\ n_observe = buffer_size + 1
    /\ agent_call.op = "update" /\ ~agent_call.batch
    /\ batch_update_count = 1 /\ Len(buffer) = 1

\* C8: a test_result_record() call leaves the buffer, the batch-update
\* counter, the classifier weights, the action-value weights and the training
\* records as they were, whatever the buffer holds; it appends one entry to
\* each of the two test lists.
C8_TestRecordLeavesLearningState ==
    [][Len(testing_accuracy') = Len(testing_accuracy) + 1
       => /\ buffer' = buffer
          /\ batch_update_count' = batch_update_count
          /\ previous_policy_weight' = previous_policy_weight
          /\ q_weights' = q_weights
          /\ training_rewards' = training_rewards
          /\ training_single_policy_weight_update' =
               training_single_policy_weight_update
          /\ Len(testing_acc_detail') = Len(testing_acc_detail) + 1]_vars

C8_Witness ==
    /\ agent_call.op = "test_result_record"
    /\ buffer_size >= 2 /\ Len(buffer) = buffer_size - 1
    /\ batch_update_count >= 1
    /\ Len(testing_accuracy) = 1

\* the entries of the last batch update's record
Logged == { batch_log[k] : k \in 1..Len(batch_log) }

Bootstraps(e) == ~e.t.terminated /\ e.t.next_obs # None

\* gamma * max(Q(next_obs, 0), Q(next_obs, 1)) under the action-value
\* weights the transition of entry e was processed with
BootstrapTerm(e) ==
    Round(discount_factor * Max(Dot(e.q, Append(e.t.next_obs, 0)),
                                Dot(e.q, Append(e.t.next_obs, 1))), WScale)

\* C16: the TD target of a transition is the reward plus the discounted
\* bootstrap term when the transition is not terminated and has a next_obs,
\* and the reward alone otherwise.
C16_BootstrapIffContinuing ==
    \A e \in Logged :
        e.target = e.t.reward * WScale
                   + (IF Bootstraps(e) THEN BootstrapTerm(e) ELSE 0)

C16_Witness ==
    /\ \E e \in Logged : Bootstraps(e) /\ BootstrapTerm(e) # 0
    /\ \E e \in Logged : /\ e.t.terminated /\ e.t.next_obs # None
                          /\ BootstrapTerm(e) # 0
                          /\ e.target = e.t.reward * WScale

InClip(v, c) == v \in (0 - c * WScale)..(c * WScale)

\* C17: for every transition of a batch update, the TD error used is the raw
\* error clipped to [-10, 10], and it is that value the critic update and
\* the policy update multiply by; the actor gradient is clipped elementwise
\* to [-10, 10] before it is multiplied; and every component of the term
\* added to the classifier weights is in [-10, 10].
C17_ClipsBeforeUse ==
    \A e \in Logged :
        /\ e.td = Clamp(e.td_raw, 0 - clipVal_td * WScale, clipVal_td * WScale)
        /\ InClip(e.td, clipVal_td)
        /\ e.q_after
             = AddVec(e.q, ScaleVec(Append(e.t.obs, e.t.action), lr_c * e.td,
                                    WScale))
        /\ e.grad = ClipVec(e.grad_raw, clipVal_grad_log_pi * WScale)
        /\ \A i \in 1..Len(e.grad) : InClip(e.grad[i], clipVal_grad_log_pi)
        /\ e.wu_raw = ScaleVec(e.grad, lr_a * e.td,
                               WScale * WScale * buffer_size)
        /\ e.wu = ClipVec(e.wu_raw, clipVal_policyWeight * WScale)
        /\ \A i \in 1..Len(e.wu) : InClip(e.wu[i], clipVal_policyWeight)

C17_Witness ==
    \E e \in Logged :
        /\ ~InClip(e.td_raw, clipVal_td)
        /\ \E i \in 1..Len(e.grad_raw) :
               ~InClip(e.grad_raw[i], clipVal_grad_log_pi)
        /\ \E i \in 1..Len(e.wu_raw) :
               ~InClip(e.wu_raw[i], clipVal_policyWeight)

\* C18: in one pass the k-th processed transition finds the action-value
\* weights the (k-1)-th left and the classifier weights with the k-1 earlier
\* updates of the pass added, its probability is the sigmoid under those
\* classifier weights, and the pass leaves the weights the last transition
\* left.
C18_TransitionByTransition ==
    /\ \A k \in 1..Len(batch_log) :
          /\ batch_log[k].prob
               = Sigmoid(Dot(batch_log[k].th, batch_log[k].t.obs))
          /\ k > 1 => /\ batch_log[k].q = batch_log[k - 1].q_after
                      /\ batch_log[k].th
                           = AddVec(batch_log[k - 1].th, batch_log[k - 1].wu)
    /\ (agent_call.op = "update" /\ agent_call.batch)
         => LET last == batch_log[Len(batch_log)]
            IN /\ q_weights = last.q_after
               /\ previous_policy_weight = AddVec(last.th, last.wu)

C18_Witness ==
    /\ agent_call.op = "update" /\ agent_call.batch
    /\ Len(batch_log) >= 2
    /\ batch_log[2].th # batch_log[1].th
    /\ batch_log[2].prob # Sigmoid(Dot(batch_log[1].th, batch_log[2].t.obs))
    /\ batch_log[2].q # batch_log[1].q

\* C19: a batch_update() call made while the buffer holds fewer than
\* buffer_size transitions changes neither the buffer, nor the classifier
\* weights, nor the action-value weights, nor the batch-update counter.
C19_BatchUpdateBelowCapacityIsNoOp ==
    [][(agent_call'.op = "batch_update" /\ Len(buffer) < buffer_size)
       => /\ buffer' = buffer
          /\ previous_policy_weight' = previous_policy_weight
          /\ q_weights' = q_weights
          /\ batch_update_count' = batch_update_count
          /\ training_single_policy_weight_update'
               = training_single_policy_weight_update
          /\ training_batch_acc' = training_batch_acc]_vars

C19_Witness ==
    /\ agent_call.op = "batch_update"
    /\ buffer_size >= 2 /\ agent_call.pre_len = buffer_size - 1
    /\ Len(buffer) = agent_call.pre_len
    /\ batch_update_count >= 1

====
